---- MODULE Spec2Model ----
(***************************************************************************)
(* A model of the lsh/mmsh command interpreter of src/main.c (and its      *)
(* renamed copy src/unnamed/part_000): the read-tokenize-dispatch loop,    *)
(* the seven builtins, and the fork/exec/wait life cycle of one child.     *)
(*                                                                         *)
(* Characters are one-character strings; a line, a token and a path        *)
(* component are sequences of characters.  Streams are sequences of the    *)
(* strings handed to printf/fprintf/perror; a token is printed character   *)
(* by character, so the text of a stream is the concatenation of its       *)
(* elements.                                                               *)
(***************************************************************************)
EXTENDS Naturals, Sequences, FiniteSets, TLC

(***************************************************************************)
(* Bounds of the model.                                                    *)
(***************************************************************************)
\* lines the input stream delivers before it reports end-of-stream
MaxCmds == 2
\* stop notifications (SIGSTOP/SIGTSTP) one child receives
MaxStops == 1
\* characters of a line when every line over the alphabet is tried
MaxLineLen == 5
\* characters and tokens tried beyond two growths of a buffer
LongSlack == 2

(***************************************************************************)
(* Program constants.                                                      *)
(***************************************************************************)
LSH_RL_BUFSIZE == 1024
LSH_TOK_BUFSIZE == 64
\* 0755
MKDIR_MODE == 493
EXIT_SUCCESS == 0
EXIT_FAILURE == 1

\* the bell character, \a
BEL == "^G"

\* mutant: the space is missing from the delimiters
LSH_TOK_DELIM_no_space == {"\t", "\r", "\n", BEL}

\* mutant: the tab is missing from the delimiters
LSH_TOK_DELIM_no_tab == {" ", "\r", "\n", BEL}

LSH_TOK_DELIM == {" ", "\t", "\r", "\n", BEL}

(***************************************************************************)
(* Words and input lines.                                                  *)
(***************************************************************************)
W_echo  == <<"e", "c", "h", "o">>
W_pwd   == <<"p", "w", "d">>
W_ls    == <<"l", "s">>
W_mkdir == <<"m", "k", "d", "i", "r">>
W_cd    == <<"c", "d">>
W_help  == <<"h", "e", "l", "p">>
W_exit  == <<"e", "x", "i", "t">>
W_Exit  == <<"E", "x", "i", "t">>
W_x     == <<"x">>
W_d     == <<"d">>
SP      == <<" ">>

builtin_str == <<W_echo, W_pwd, W_ls, W_mkdir, W_cd, W_help, W_exit>>

lsh_num_builtins == Len(builtin_str)

\* the lines a user types (without the terminating newline)
Lines ==
  { <<>>,
    <<" ", "\t", "\r", BEL>>,
    W_exit,
    W_exit \o SP \o W_x,
    W_echo,
    W_echo \o SP \o <<"a">> \o SP \o <<"b">> \o <<"\t">> \o <<"c">>,
    W_pwd,
    W_ls,
    W_help,
    W_cd,
    W_cd \o SP \o W_d,
    W_cd \o SP \o W_x,
    W_mkdir,
    W_mkdir \o SP \o W_x,
    W_mkdir \o SP \o W_d,
    W_mkdir \o SP \o W_x \o <<"/">> \o W_d,
    W_Exit,
    <<" ">> \o W_x \o SP \o W_cd \o SP }

\* what may precede end-of-stream on the last, unterminated line
Partials == { <<>>, W_mkdir \o SP \o W_x }

(***************************************************************************)
(* lsh_read_line: the characters of the input stream are consumed one at   *)
(* a time; EOF (the stream runs out) exits the process, a newline returns  *)
(* the buffer, anything else is stored and may grow the buffer.            *)
(***************************************************************************)
RECURSIVE ReadLoop(_, _, _, _)
ReadLoop(input, i, buffer, bufsize) ==
  IF i > Len(input)
    THEN [kind |-> "eof", buffer |-> buffer, bufsize |-> bufsize]
    ELSE IF input[i] = "\n"
      THEN [kind |-> "line", buffer |-> buffer, bufsize |-> bufsize]
      ELSE LET position == Len(buffer) + 1
           IN  ReadLoop(input, i + 1, Append(buffer, input[i]),
                        IF position >= bufsize THEN bufsize + LSH_RL_BUFSIZE
                                               ELSE bufsize)

\* mutant: EOF ends the line like a newline does
lsh_read_line_eof_is_newline(input) ==
  [ReadLoop(input, 1, <<>>, LSH_RL_BUFSIZE) EXCEPT !.kind = "line"]

\* mutant: EOF after some characters returns them as a line
lsh_read_line_eof_returns_partial(input) ==
  LET r == ReadLoop(input, 1, <<>>, LSH_RL_BUFSIZE)
  IN  IF r.kind = "eof" /\ r.buffer # <<>> THEN [r EXCEPT !.kind = "line"] ELSE r

lsh_read_line(input) == ReadLoop(input, 1, <<>>, LSH_RL_BUFSIZE)

(***************************************************************************)
(* lsh_split_line: strtok over LSH_TOK_DELIM.                              *)
(***************************************************************************)
\* mutant: one delimiter at most is skipped before a token
SkipDelims_one(s, i) ==
  IF i <= Len(s) /\ s[i] \in LSH_TOK_DELIM THEN i + 1 ELSE i

RECURSIVE SkipDelims(_, _)
SkipDelims(s, i) ==
  IF i <= Len(s) /\ s[i] \in LSH_TOK_DELIM THEN SkipDelims(s, i + 1) ELSE i

RECURSIVE TokEnd(_, _)
TokEnd(s, i) ==
  IF i <= Len(s) /\ s[i] \notin LSH_TOK_DELIM THEN TokEnd(s, i + 1) ELSE i

\* strtok: the next token starting the scan at i, or none
strtok(s, i) ==
  LET b == SkipDelims(s, i)
      e == TokEnd(s, b)
  IN  IF b > Len(s)
        THEN [found |-> FALSE, token |-> <<>>, next |-> b]
        ELSE [found |-> TRUE, token |-> SubSeq(s, b, e - 1), next |-> e + 1]

RECURSIVE SplitLoop(_, _, _, _)
SplitLoop(s, i, tokens, bufsize) ==
  LET t == strtok(s, i)
  IN  IF ~t.found
        THEN [tokens |-> tokens, bufsize |-> bufsize]
        ELSE SplitLoop(s, t.next, Append(tokens, t.token),
                       IF Len(tokens) + 1 >= bufsize
                         THEN bufsize + LSH_TOK_BUFSIZE ELSE bufsize)

lsh_split_line(s) == SplitLoop(s, 1, <<>>, LSH_TOK_BUFSIZE).tokens

(***************************************************************************)
(* The file system seen through chdir(2) and mkdir(2): a set of            *)
(* directories, each a path (sequence of components) with the mode it was  *)
(* created with.  The root always exists.                                  *)
(***************************************************************************)
Root == <<>>

Dirs(f) == {e.p : e \in f}

\* the components of a path name, split at "/"
RECURSIVE Components(_, _, _)
Components(tok, i, cur) ==
  IF i > Len(tok) THEN <<cur>>
  ELSE IF tok[i] = "/" THEN <<cur>> \o Components(tok, i + 1, <<>>)
  ELSE Components(tok, i + 1, Append(cur, tok[i]))

NonEmpty(comps) == SelectSeq(comps, LAMBDA c : c # <<>>)

Front(s) == SubSeq(s, 1, Len(s) - 1)

\* path resolution: every directory walked through has to exist
RECURSIVE Walk(_, _, _)
Walk(f, at, comps) ==
  IF at \notin Dirs(f) THEN [ok |-> FALSE, p |-> at]
  ELSE IF comps = <<>> THEN [ok |-> TRUE, p |-> at]
  ELSE IF comps[1] = <<".">> THEN Walk(f, at, Tail(comps))
  ELSE IF comps[1] = <<".", ".">>
    THEN Walk(f, IF at = Root THEN Root ELSE Front(at), Tail(comps))
  ELSE Walk(f, Append(at, comps[1]), Tail(comps))

StartOf(wd, tok) == IF tok[1] = "/" THEN Root ELSE wd

\* chdir(path): the new working directory, or the errno
sys_chdir(f, wd, tok) ==
  LET w == Walk(f, StartOf(wd, tok), NonEmpty(Components(tok, 1, <<>>)))
  IN  IF w.ok THEN [ret |-> 0, cwd |-> w.p, errno |-> "none"]
              ELSE [ret |-> 1, cwd |-> wd, errno |-> "ENOENT"]

\* mkdir(path, mode): the new file system, or the errno
sys_mkdir(f, wd, tok, mode) ==
  LET comps == NonEmpty(Components(tok, 1, <<>>))
      w     == Walk(f, StartOf(wd, tok), Front(comps))
      name  == comps[Len(comps)]
      new   == Append(w.p, name)
  IN  IF comps = <<>> THEN [ret |-> 1, fs |-> f, errno |-> "EEXIST"]
      ELSE IF ~w.ok THEN [ret |-> 1, fs |-> f, errno |-> "ENOENT"]
      ELSE IF name \in {<<".">>, <<".", ".">>} \/ new \in Dirs(f)
        THEN [ret |-> 1, fs |-> f, errno |-> "EEXIST"]
      ELSE [ret |-> 0, fs |-> f \cup {[p |-> new, m |-> mode]}, errno |-> "none"]

\* getcwd: the text of a path
RECURSIVE PathText(_)
PathText(p) ==
  IF p = <<>> THEN <<>> ELSE <<"/">> \o p[1] \o PathText(Tail(p))

getcwd(wd) == IF wd = Root THEN <<"/">> ELSE PathText(wd)

\* the names readdir reports for a directory, in some order
Entries(f, wd) ==
  {<<".">>, <<".", ".">>} \cup
  {q[Len(q)] : q \in {r \in Dirs(f) : r # Root /\ Front(r) = wd}}

Orderings(S) ==
  {o \in [1..Cardinality(S) -> S] : \A i, j \in 1..Cardinality(S) : i # j => o[i] # o[j]}

(***************************************************************************)
(* Standard output is buffered by stdio.  In "line" mode (a terminal) the  *)
(* buffer is written out up to the last newline and before the input is    *)
(* read; in "full" mode (a pipe or file) it stays in the buffer until the  *)
(* process exits.  Standard error is unbuffered.                           *)
(***************************************************************************)
RECURSIVE LastNewline(_, _)
LastNewline(b, i) ==
  IF i = 0 THEN 0 ELSE IF b[i] = "\n" THEN i ELSE LastNewline(b, i - 1)

\* printf of the items: the resulting stream and buffer
printf(mode, o, b, items) ==
  LET nb == b \o items
      k  == IF mode = "line" THEN LastNewline(nb, Len(nb)) ELSE 0
  IN  [out |-> o \o SubSeq(nb, 1, k), obuf |-> SubSeq(nb, k + 1, Len(nb))]

\* fflush / exit: everything buffered reaches the stream
fflush(o, b) == [out |-> o \o b, obuf |-> <<>>]

Diag(who, msg) == [by |-> who, msg |-> msg]

perror(who, prefix, errno) == Diag(who, <<prefix, ": ", errno, "\n">>)

PROMPT_STR == "> "

(***************************************************************************)
(* State.                                                                  *)
(***************************************************************************)
VARIABLES
  pc,          \* where the shell process is: prompt, read, split, execute,
               \* wait, free, return, exited
  line,        \* lsh_loop's line: the Raw Line buffer
  args,        \* lsh_loop's args: the Argument Vector (NULL end marker implicit)
  heap,        \* allocation state of line and args: none, live, freed
  status,      \* lsh_loop's status: the continuation signal
  cwd,         \* the shell process's working directory
  fs,          \* the directories of the file system
  out,         \* what has reached standard output
  obuf,        \* the shell's stdio buffer of standard output
  err,         \* what has reached standard error
  bufmode,     \* buffering of standard output: line or full
  child,       \* the child of the current lsh_launch
  nread,       \* lines read so far
  exitStatus,  \* the process's exit status once pc = "exited"
  eof,         \* getchar has returned EOF
  calls,       \* the handlers lsh_execute called in this iteration
  tape,        \* the complete lines lsh_read_line has returned, in order
  done,        \* the vectors lsh_execute was called with, in order
  loc          \* locals of lsh_read_line / lsh_split_line: bufsize, and
               \* where strtok goes on scanning

vars == <<pc, line, args, heap, status, cwd, fs, out, obuf, err, bufmode,
          child, nread, exitStatus, eof, calls, tape, done, loc>>

NoChild == [st |-> "none", argv |-> <<>>, obuf |-> <<>>, code |-> 0,
            reported |-> FALSE, prev |-> "none", stops |-> 0, cwd |-> Root]

InitDirs == {Root, <<W_d>>}

Init ==
  /\ pc = "prompt"
  /\ line = <<>>
  /\ args = <<>>
  /\ heap = [line |-> "none", args |-> "none"]
  /\ status = 1
  /\ fs = {[p |-> d, m |-> MKDIR_MODE] : d \in InitDirs}
  /\ cwd \in InitDirs
  /\ out = <<>>
  /\ obuf = <<>>
  /\ err = <<>>
  /\ bufmode \in {"line", "full"}
  /\ child = NoChild
  /\ nread = 0
  /\ exitStatus = 0
  /\ eof = FALSE
  /\ calls = <<>>
  /\ tape = <<>>
  /\ done = <<>>
  /\ loc = [bufsize |-> 0, scan |-> 0]

\* exit(code) in the shell process: stdio flushes, the process is gone
Exit(code, o, b) ==
  /\ out' = fflush(o, b).out
  /\ obuf' = <<>>
  /\ exitStatus' = code
  /\ pc' = "exited"

(***************************************************************************)
(* lsh_loop, lines 332-340.                                                *)
(***************************************************************************)
Prompt ==
  /\ pc = "prompt"
  /\ LET w == printf(bufmode, out, obuf, <<PROMPT_STR>>)
     IN  out' = w.out /\ obuf' = w.obuf
  /\ calls' = <<>>
  /\ pc' = "read"
  /\ UNCHANGED <<line, args, heap, status, cwd, fs, err, bufmode, child, nread,
                 exitStatus, eof,
                 tape, done, loc>>

\* the characters the input stream still delivers to this call
InputsOf(lines) ==
  {p : p \in Partials} \cup
  (IF nread < MaxCmds THEN {l \o <<"\n">> : l \in lines} ELSE {})

Inputs == InputsOf(Lines)

\* lsh_read_line: a read of a terminal writes the pending prompt out first
ReadLineOf(inputs) ==
  /\ pc = "read"
  /\ \E input \in inputs :
       LET r == lsh_read_line(input)
           f == IF bufmode = "line" THEN fflush(out, obuf)
                                    ELSE [out |-> out, obuf |-> obuf]
       IN  /\ eof' = (\A i \in 1..Len(input) : input[i] # "\n")
           /\ line' = r.buffer
           /\ heap' = [heap EXCEPT !.line = "live"]
           /\ loc' = [loc EXCEPT !.bufsize = r.bufsize]
           /\ IF r.kind = "eof"
                THEN /\ Exit(EXIT_SUCCESS, f.out, f.obuf)
                     /\ UNCHANGED <<nread, tape>>
                ELSE /\ nread' = nread + 1
                     /\ tape' = Append(tape, SubSeq(input, 1, Len(input) - 1))
                     /\ out' = f.out
                     /\ obuf' = f.obuf
                     /\ pc' = "split"
                     /\ UNCHANGED exitStatus
  /\ UNCHANGED <<args, status, cwd, fs, err, bufmode, child, calls, done>>

ReadLine == ReadLineOf(Inputs)

AllocError == Diag("shell", <<"lsh: allocation error", "\n">>)

\* lsh_read_line, lines 247-253: malloc fails
ReadLineNoMem ==
  /\ pc = "read"
  /\ err' = Append(err, AllocError)
  /\ Exit(EXIT_FAILURE, out, obuf)
  /\ UNCHANGED <<line, args, heap, status, cwd, fs, bufmode, child, nread, calls, eof,
                 tape, done, loc>>

SplitLine ==
  /\ pc = "split"
  /\ args' = lsh_split_line(line)
  /\ loc' = [bufsize |-> SplitLoop(line, 1, <<>>, LSH_TOK_BUFSIZE).bufsize,
             scan |-> Len(line) + 1]
  /\ heap' = [heap EXCEPT !.args = "live"]
  /\ pc' = "execute"
  /\ UNCHANGED <<line, status, cwd, fs, out, obuf, err, bufmode, child, nread,
                 exitStatus, calls, eof,
                 tape, done>>

\* lsh_split_line, lines 293-299: malloc fails
SplitLineNoMem ==
  /\ pc = "split"
  /\ err' = Append(err, AllocError)
  /\ Exit(EXIT_FAILURE, out, obuf)
  /\ UNCHANGED <<line, args, heap, status, cwd, fs, bufmode, child, nread, calls, eof,
                 tape, done, loc>>

\* mutant: free(args) is missing
LoopEnd_keeps_args ==
  /\ pc = "free"
  /\ heap' = [heap EXCEPT !.line = "freed"]
  /\ line' = <<>>
  /\ pc' = IF status # 0 THEN "prompt" ELSE "return"
  /\ UNCHANGED <<args, status, cwd, fs, out, obuf, err, bufmode, child, nread,
                 exitStatus, calls, eof, tape, done, loc>>

\* free(line); free(args); while (status)
LoopEnd ==
  /\ pc = "free"
  /\ heap' = [line |-> "freed", args |-> "freed"]
  /\ line' = <<>>
  /\ args' = <<>>
  /\ pc' = IF status # 0 THEN "prompt" ELSE "return"
  /\ UNCHANGED <<status, cwd, fs, out, obuf, err, bufmode, child, nread,
                 exitStatus, calls, eof,
                 tape, done, loc>>

\* main returns EXIT_SUCCESS after lsh_loop
MainReturn ==
  /\ pc = "return"
  /\ Exit(EXIT_SUCCESS, out, obuf)
  /\ UNCHANGED <<line, args, heap, status, cwd, fs, err, bufmode, child, nread,
                 calls, eof,
                 tape, done, loc>>

(***************************************************************************)
(* lsh_read_line and lsh_split_line once more, one loop iteration per      *)
(* step, for lines of any length: line is the buffer filled so far and     *)
(* args the token slots filled so far.                                     *)
(***************************************************************************)
\* a read of a terminal writes the pending prompt out first
GetcharFlush ==
  LET f == IF bufmode = "line" THEN fflush(out, obuf)
                               ELSE [out |-> out, obuf |-> obuf]
  IN  out' = f.out /\ obuf' = f.obuf

\* lines 245-253: the buffer is allocated
ReadBegin ==
  /\ pc = "read"
  /\ heap.line # "live"
  /\ line' = <<>>
  /\ heap' = [heap EXCEPT !.line = "live"]
  /\ loc' = [loc EXCEPT !.bufsize = LSH_RL_BUFSIZE]
  /\ UNCHANGED <<pc, args, status, cwd, fs, out, obuf, err, bufmode, child, nread,
                 exitStatus, eof, calls, tape, done>>

\* mutant: the buffer grows only once the position has passed its size
ReadChar_grows_late(c) ==
  /\ pc = "read"
  /\ heap.line = "live"
  /\ c # "\n"
  /\ GetcharFlush
  /\ line' = Append(line, c)
  /\ loc' = [loc EXCEPT !.bufsize = IF Len(line) + 1 > @ THEN @ + LSH_RL_BUFSIZE
                                                        ELSE @]
  /\ UNCHANGED <<pc, args, heap, status, cwd, fs, err, bufmode, child, nread,
                 exitStatus, eof, calls, tape, done>>

\* lines 266-279: the character is stored, the buffer grows when full
ReadChar(c) ==
  /\ pc = "read"
  /\ heap.line = "live"
  /\ c # "\n"
  /\ GetcharFlush
  /\ line' = Append(line, c)
  /\ loc' = [loc EXCEPT !.bufsize = IF Len(line) + 1 >= @ THEN @ + LSH_RL_BUFSIZE
                                                         ELSE @]
  /\ UNCHANGED <<pc, args, heap, status, cwd, fs, err, bufmode, child, nread,
                 exitStatus, eof, calls, tape, done>>

\* lines 262-265: the newline ends the line
ReadNewline ==
  /\ pc = "read"
  /\ heap.line = "live"
  /\ GetcharFlush
  /\ nread' = nread + 1
  /\ tape' = Append(tape, line)
  /\ eof' = FALSE
  /\ pc' = "split"
  /\ UNCHANGED <<line, args, heap, status, cwd, fs, err, bufmode, child,
                 exitStatus, calls, done, loc>>

\* lines 292-301: the slots are allocated, strtok starts at the line's start
SplitBegin ==
  /\ pc = "split"
  /\ heap.args # "live"
  /\ args' = <<>>
  /\ heap' = [heap EXCEPT !.args = "live"]
  /\ loc' = [bufsize |-> LSH_TOK_BUFSIZE, scan |-> 1]
  /\ UNCHANGED <<pc, line, status, cwd, fs, out, obuf, err, bufmode, child, nread,
                 exitStatus, eof, calls, tape, done>>

\* lines 302-318: the token is stored, the slots grow when full
SplitToken ==
  /\ pc = "split"
  /\ heap.args = "live"
  /\ LET t == strtok(line, loc.scan)
     IN  /\ t.found
         /\ args' = Append(args, t.token)
         /\ loc' = [bufsize |-> IF Len(args) + 1 >= loc.bufsize
                                  THEN loc.bufsize + LSH_TOK_BUFSIZE
                                  ELSE loc.bufsize,
                    scan |-> t.next]
  /\ UNCHANGED <<pc, line, heap, status, cwd, fs, out, obuf, err, bufmode, child,
                 nread, exitStatus, eof, calls, tape, done>>

\* lines 319-320: the end marker is stored
SplitEnd ==
  /\ pc = "split"
  /\ heap.args = "live"
  /\ ~strtok(line, loc.scan).found
  /\ pc' = "execute"
  /\ UNCHANGED <<line, args, heap, status, cwd, fs, out, obuf, err, bufmode, child,
                 nread, exitStatus, eof, calls, tape, done, loc>>

(***************************************************************************)
(* lsh_execute, lines 220-236: the registry is scanned in order with       *)
(* strcmp; the first equal name selects the handler.                       *)
(***************************************************************************)
builtin_func == <<"lsh_echo", "lsh_pwd", "lsh_ls", "lsh_mkdir", "lsh_cd",
                  "lsh_help", "lsh_exit">>

\* mutant: the names are compared without regard to case (strcasecmp)
ToLower(c) == IF c = "E" THEN "e" ELSE c

strcasecmp(a, b) ==
  IF Len(a) = Len(b) /\ \A i \in 1..Len(a) : ToLower(a[i]) = ToLower(b[i])
    THEN 0 ELSE 1

strcmp(a, b) == IF a = b THEN 0 ELSE 1

RECURSIVE FindBuiltin(_, _)
FindBuiltin(tok, i) ==
  IF i > lsh_num_builtins THEN 0
  ELSE IF strcmp(tok, builtin_str[i]) = 0 THEN i
  ELSE FindBuiltin(tok, i + 1)

\* the function lsh_execute hands the vector to
Target(argv) ==
  IF argv = <<>> THEN "nothing"
  ELSE LET i == FindBuiltin(argv[1], 1)
       IN  IF i # 0 THEN builtin_func[i] ELSE "lsh_launch"

Call(fn) == Append(calls, [fn |-> fn, argv |-> args])

\* a handler returns st to lsh_loop
Return(st) == status' = st /\ pc' = "free"

\* lines 224-227: an empty command
ExecuteEmpty ==
  /\ pc = "execute"
  /\ done' = Append(done, args)
  /\ Target(args) = "nothing"
  /\ Return(1)
  /\ UNCHANGED <<line, args, heap, cwd, fs, out, obuf, err, bufmode, child,
                 nread, exitStatus, calls, eof,
                 tape, loc>>

RECURSIVE EchoText(_, _)
EchoText(argv, i) ==
  IF i > Len(argv) THEN <<>> ELSE argv[i] \o <<" ">> \o EchoText(argv, i + 1)

lsh_echo_text(argv) == EchoText(argv, 2) \o <<"\n">>

lsh_echo ==
  /\ pc = "execute"
  /\ done' = Append(done, args)
  /\ Target(args) = "lsh_echo"
  /\ LET w == printf(bufmode, out, obuf, lsh_echo_text(args))
     IN  out' = w.out /\ obuf' = w.obuf
  /\ calls' = Call("lsh_echo")
  /\ Return(1)
  /\ UNCHANGED <<line, args, heap, cwd, fs, err, bufmode, child, nread,
                 exitStatus, eof,
                 tape, loc>>

\* what an unfilled cwd[1024] may hold
Garbage == {<<>>, <<"?">>}

\* the return value of getcwd is not looked at
lsh_pwd ==
  /\ pc = "execute"
  /\ done' = Append(done, args)
  /\ Target(args) = "lsh_pwd"
  /\ \E text \in {getcwd(cwd)} \cup Garbage :
       LET w == printf(bufmode, out, obuf,
                       <<"Current working dir: ">> \o text \o <<"\n">>)
       IN  out' = w.out /\ obuf' = w.obuf
  /\ calls' = Call("lsh_pwd")
  /\ Return(1)
  /\ UNCHANGED <<line, args, heap, cwd, fs, err, bufmode, child, nread,
                 exitStatus, eof,
                 tape, loc>>

RECURSIVE LsText(_, _)
LsText(names, i) ==
  IF i > Len(names) THEN <<>> ELSE names[i] \o <<"\n">> \o LsText(names, i + 1)

lsh_ls ==
  /\ pc = "execute"
  /\ done' = Append(done, args)
  /\ Target(args) = "lsh_ls"
  /\ \/ \E names \in Orderings(Entries(fs, cwd)) :
          LET w == printf(bufmode, out, obuf, LsText(names, 1))
          IN  out' = w.out /\ obuf' = w.obuf /\ err' = err
     \/ /\ err' = Append(err, perror("shell", "Couldn't open the directory", "EACCES"))
        /\ UNCHANGED <<out, obuf>>
  /\ calls' = Call("lsh_ls")
  /\ Return(1)
  /\ UNCHANGED <<line, args, heap, cwd, fs, bufmode, child, nread, exitStatus, eof,
                 tape, loc>>

Usage(name) == Diag("shell", <<"lsh: expected argument to \"", name, "\"", "\n">>)

\* mutant: the result of mkdir is not looked at
lsh_mkdir_unchecked ==
  /\ pc = "execute"
  /\ done' = Append(done, args)
  /\ Target(args) = "lsh_mkdir"
  /\ IF Len(args) < 2
       THEN err' = Append(err, Usage("mkdir")) /\ fs' = fs
       ELSE fs' = sys_mkdir(fs, cwd, args[2], MKDIR_MODE).fs /\ err' = err
  /\ calls' = Call("lsh_mkdir")
  /\ Return(1)
  /\ UNCHANGED <<line, args, heap, cwd, out, obuf, bufmode, child, nread,
                 exitStatus, eof,
                 tape, loc>>

lsh_mkdir ==
  /\ pc = "execute"
  /\ done' = Append(done, args)
  /\ Target(args) = "lsh_mkdir"
  /\ IF Len(args) < 2
       THEN err' = Append(err, Usage("mkdir")) /\ fs' = fs
       ELSE LET r == sys_mkdir(fs, cwd, args[2], MKDIR_MODE)
            IN  /\ fs' = r.fs
                /\ err' = IF r.ret # 0 THEN Append(err, perror("shell", "lsh", r.errno))
                                       ELSE err
  /\ calls' = Call("lsh_mkdir")
  /\ Return(1)
  /\ UNCHANGED <<line, args, heap, cwd, out, obuf, bufmode, child, nread,
                 exitStatus, eof,
                 tape, loc>>

\* mutant: cd without an argument goes to the root directory
lsh_cd_default_dir ==
  /\ pc = "execute"
  /\ done' = Append(done, args)
  /\ Target(args) = "lsh_cd"
  /\ LET r == sys_chdir(fs, cwd, IF Len(args) < 2 THEN <<"/">> ELSE args[2])
     IN  /\ cwd' = r.cwd
         /\ err' = IF r.ret # 0 THEN Append(err, perror("shell", "lsh", r.errno))
                                ELSE err
  /\ calls' = Call("lsh_cd")
  /\ Return(1)
  /\ UNCHANGED <<line, args, heap, fs, out, obuf, bufmode, child, nread,
                 exitStatus, eof,
                 tape, loc>>

lsh_cd ==
  /\ pc = "execute"
  /\ done' = Append(done, args)
  /\ Target(args) = "lsh_cd"
  /\ IF Len(args) < 2
       THEN err' = Append(err, Usage("cd")) /\ cwd' = cwd
       ELSE LET r == sys_chdir(fs, cwd, args[2])
            IN  /\ cwd' = r.cwd
                /\ err' = IF r.ret # 0 THEN Append(err, perror("shell", "lsh", r.errno))
                                       ELSE err
  /\ calls' = Call("lsh_cd")
  /\ Return(1)
  /\ UNCHANGED <<line, args, heap, fs, out, obuf, bufmode, child, nread,
                 exitStatus, eof,
                 tape, loc>>

RECURSIVE HelpNames(_)
HelpNames(i) ==
  IF i > lsh_num_builtins THEN <<>>
  ELSE <<"  ">> \o builtin_str[i] \o <<"\n">> \o HelpNames(i + 1)

lsh_help_text ==
  <<"Stephen Brennan's LSH", "\n",
    "Type program names and arguments, and hit enter.", "\n",
    "The following are built in:", "\n">>
  \o HelpNames(1)
  \o <<"Use the man command for information on other programs.", "\n">>

lsh_help ==
  /\ pc = "execute"
  /\ done' = Append(done, args)
  /\ Target(args) = "lsh_help"
  /\ LET w == printf(bufmode, out, obuf, lsh_help_text)
     IN  out' = w.out /\ obuf' = w.obuf
  /\ calls' = Call("lsh_help")
  /\ Return(1)
  /\ UNCHANGED <<line, args, heap, cwd, fs, err, bufmode, child, nread,
                 exitStatus, eof,
                 tape, loc>>

\* mutant: the handler returns 1 like every other builtin
lsh_exit_returns_1 ==
  /\ pc = "execute"
  /\ done' = Append(done, args)
  /\ Target(args) = "lsh_exit"
  /\ calls' = Call("lsh_exit")
  /\ Return(1)
  /\ UNCHANGED <<line, args, heap, cwd, fs, out, obuf, err, bufmode, child,
                 nread, exitStatus, eof,
                 tape, loc>>

lsh_exit ==
  /\ pc = "execute"
  /\ done' = Append(done, args)
  /\ Target(args) = "lsh_exit"
  /\ calls' = Call("lsh_exit")
  /\ Return(0)
  /\ UNCHANGED <<line, args, heap, cwd, fs, out, obuf, err, bufmode, child,
                 nread, exitStatus, eof,
                 tape, loc>>

(***************************************************************************)
(* lsh_launch, lines 188-213.  fork copies the process, its stdio buffer   *)
(* included; the parent waits in waitpid(pid, &status, WUNTRACED) until    *)
(* the child has exited or was killed by a signal.                         *)
(***************************************************************************)
\* fork succeeds: the parent goes on to waitpid
Fork ==
  /\ pc = "execute"
  /\ done' = Append(done, args)
  /\ Target(args) = "lsh_launch"
  /\ child' = [NoChild EXCEPT !.st = "forked", !.argv = args, !.obuf = obuf,
                              !.cwd = cwd]
  /\ calls' = Call("lsh_launch")
  /\ pc' = "wait"
  /\ UNCHANGED <<line, args, heap, status, cwd, fs, out, obuf, err, bufmode,
                 nread, exitStatus, eof,
                 tape, loc>>

\* fork fails: pid < 0
ForkFail ==
  /\ pc = "execute"
  /\ done' = Append(done, args)
  /\ Target(args) = "lsh_launch"
  /\ err' = Append(err, perror("shell", "lsh", "EAGAIN"))
  /\ calls' = Call("lsh_launch")
  /\ Return(1)
  /\ UNCHANGED <<line, args, heap, cwd, fs, out, obuf, bufmode, child, nread,
                 exitStatus, eof,
                 tape, loc>>

\* mutant: no loop around waitpid, the first notification ends the wait
WaitPid_once ==
  /\ pc = "wait"
  /\ \/ /\ child.st \in {"exited", "signaled"}
        /\ child' = NoChild
     \/ /\ child.st = "stopped"
        /\ ~child.reported
        /\ child' = [child EXCEPT !.reported = TRUE]
  /\ Return(1)
  /\ UNCHANGED <<line, args, heap, cwd, fs, out, obuf, err, bufmode, nread,
                 exitStatus, calls, eof,
                 tape, done, loc>>

\* mutant: the child's exit code becomes the continuation signal
WaitPid_surfaces_code ==
  /\ pc = "wait"
  /\ \/ /\ child.st \in {"exited", "signaled"}
        /\ child' = NoChild
        /\ Return(IF child.st = "exited" /\ child.code # 0 THEN 0 ELSE 1)
     \/ /\ child.st = "stopped"
        /\ ~child.reported
        /\ child' = [child EXCEPT !.reported = TRUE]
        /\ UNCHANGED <<pc, status>>
  /\ UNCHANGED <<line, args, heap, cwd, fs, out, obuf, err, bufmode, nread,
                 exitStatus, calls, eof,
                 tape, done, loc>>

\* mutant: the wait ends for a child that exited only, not for a killed one
WaitPid_exited_only ==
  /\ pc = "wait"
  /\ \/ /\ child.st = "exited"
        /\ child' = NoChild
        /\ Return(1)
     \/ /\ child.st = "stopped"
        /\ ~child.reported
        /\ child' = [child EXCEPT !.reported = TRUE]
        /\ UNCHANGED <<pc, status>>
  /\ UNCHANGED <<line, args, heap, cwd, fs, out, obuf, err, bufmode, nread,
                 exitStatus, calls, eof,
                 tape, done, loc>>

\* the do-while around waitpid: a stop notification does not end it
WaitPid ==
  /\ pc = "wait"
  /\ \/ /\ child.st \in {"exited", "signaled"}
        /\ child' = NoChild
        /\ Return(1)
     \/ /\ child.st = "stopped"
        /\ ~child.reported
        /\ child' = [child EXCEPT !.reported = TRUE]
        /\ UNCHANGED <<pc, status>>
  /\ UNCHANGED <<line, args, heap, cwd, fs, out, obuf, err, bufmode, nread,
                 exitStatus, calls, eof,
                 tape, done, loc>>

(***************************************************************************)
(* The child process.                                                      *)
(***************************************************************************)
\* execvp succeeds: the program replaces the image (and the copied buffer)
ChildExec ==
  /\ child.st = "forked"
  /\ child' = [child EXCEPT !.st = "running", !.obuf = <<>>]
  /\ UNCHANGED <<pc, line, args, heap, status, cwd, fs, out, obuf, err, bufmode,
                 nread, exitStatus, calls, eof,
                 tape, done, loc>>

\* mutant: the child exits without reporting the failure
ChildExecFail_silent ==
  /\ child.st = "forked"
  /\ out' = fflush(out, child.obuf).out
  /\ child' = [child EXCEPT !.st = "exited", !.code = EXIT_FAILURE, !.obuf = <<>>]
  /\ UNCHANGED <<pc, line, args, heap, status, cwd, fs, obuf, err, bufmode, nread,
                 exitStatus, calls, eof,
                 tape, done, loc>>

\* mutant: exit(EXIT_FAILURE) is missing, the child returns into the loop
ChildExecFail_returns ==
  /\ child.st = "forked"
  /\ \E errno \in {"ENOENT", "EACCES"} :
       err' = Append(err, perror("child", "lsh", errno))
  /\ Return(1)
  /\ UNCHANGED <<line, args, heap, cwd, fs, out, obuf, bufmode, nread, child,
                 exitStatus, calls, eof, tape, done, loc>>

\* execvp fails: perror, then exit(EXIT_FAILURE), which flushes stdio
ChildExecFail ==
  /\ child.st = "forked"
  /\ \E errno \in {"ENOENT", "EACCES"} :
       err' = Append(err, perror("child", "lsh", errno))
  /\ out' = fflush(out, child.obuf).out
  /\ child' = [child EXCEPT !.st = "exited", !.code = EXIT_FAILURE, !.obuf = <<>>]
  /\ UNCHANGED <<pc, line, args, heap, status, cwd, fs, obuf, bufmode, nread,
                 exitStatus, calls, eof,
                 tape, done, loc>>

\* the program ends by itself
ChildExit ==
  /\ child.st = "running"
  /\ \E code \in {0, 1} :
       child' = [child EXCEPT !.st = "exited", !.code = code]
  /\ UNCHANGED <<pc, line, args, heap, status, cwd, fs, out, obuf, err, bufmode,
                 nread, exitStatus, calls, eof,
                 tape, done, loc>>

\* a signal kills the child
ChildKill ==
  /\ child.st \in {"forked", "running", "stopped"}
  /\ child' = [child EXCEPT !.st = "signaled", !.obuf = <<>>]
  /\ UNCHANGED <<pc, line, args, heap, status, cwd, fs, out, obuf, err, bufmode,
                 nread, exitStatus, calls, eof,
                 tape, done, loc>>

\* a signal stops the child
ChildStop ==
  /\ child.st \in {"forked", "running"}
  /\ child.stops < MaxStops
  /\ child' = [child EXCEPT !.st = "stopped", !.prev = child.st,
                            !.reported = FALSE, !.stops = child.stops + 1]
  /\ UNCHANGED <<pc, line, args, heap, status, cwd, fs, out, obuf, err, bufmode,
                 nread, exitStatus, calls, eof,
                 tape, done, loc>>

\* SIGCONT
ChildCont ==
  /\ child.st = "stopped"
  /\ child' = [child EXCEPT !.st = child.prev]
  /\ UNCHANGED <<pc, line, args, heap, status, cwd, fs, out, obuf, err, bufmode,
                 nread, exitStatus, calls, eof,
                 tape, done, loc>>

\* mutant: the program's chdir moves the shell as well
ChildChdir_shared ==
  /\ child.st = "running"
  /\ \E d \in Dirs(fs) \ {child.cwd} :
       child' = [child EXCEPT !.cwd = d] /\ cwd' = d
  /\ UNCHANGED <<pc, line, args, heap, status, fs, out, obuf, err, bufmode,
                 nread, exitStatus, calls, eof, tape, done, loc>>

\* the program changes its own working directory
ChildChdir ==
  /\ child.st = "running"
  /\ \E d \in Dirs(fs) \ {child.cwd} : child' = [child EXCEPT !.cwd = d]
  /\ UNCHANGED <<pc, line, args, heap, status, cwd, fs, out, obuf, err, bufmode,
                 nread, exitStatus, calls, eof, tape, done, loc>>

Next ==
  \/ Prompt
  \/ ReadLine
  \/ ReadLineNoMem
  \/ SplitLine
  \/ SplitLineNoMem
  \/ ExecuteEmpty
  \/ lsh_echo
  \/ lsh_pwd
  \/ lsh_ls
  \/ lsh_mkdir
  \/ lsh_cd
  \/ lsh_help
  \/ lsh_exit
  \/ Fork
  \/ ForkFail
  \/ WaitPid
  \/ ChildExec
  \/ ChildExecFail
  \/ ChildExit
  \/ ChildKill
  \/ ChildStop
  \/ ChildCont
  \/ ChildChdir
  \/ LoopEnd
  \/ MainReturn

Spec == Init /\ [][Next]_vars

(***************************************************************************)
(* The shell with no failing allocation and a scheduler that lets the      *)
(* shell process run: a step of the shell that stays possible is taken.    *)
(* The input ends after MaxCmds lines at the latest, so a read returns.    *)
(* The line is split token by token.  Nothing is assumed about the child.  *)
(***************************************************************************)
\* the lines tried: nothing, every builtin, and a program
FairLines ==
  {<<>>, W_echo, W_pwd, W_ls, W_mkdir, W_cd \o SP \o W_d, W_help, W_exit, W_Exit}

ShellStep ==
  \/ Prompt
  \/ ReadLineOf(InputsOf(FairLines))
  \/ SplitBegin
  \/ SplitToken
  \/ SplitEnd
  \/ ExecuteEmpty
  \/ lsh_echo
  \/ lsh_pwd
  \/ lsh_ls
  \/ lsh_mkdir
  \/ lsh_cd
  \/ lsh_help
  \/ lsh_exit
  \/ Fork
  \/ ForkFail
  \/ WaitPid
  \/ LoopEnd
  \/ MainReturn

ChildStep ==
  \/ ChildExec
  \/ ChildExecFail
  \/ ChildExit
  \/ ChildKill
  \/ ChildStop
  \/ ChildCont
  \/ ChildChdir

FairNext == ShellStep \/ ChildStep

FairSpec == Init /\ [][FairNext]_vars /\ WF_vars(ShellStep)

(***************************************************************************)
(* Every line of up to MaxLineLen characters over an alphabet with all     *)
(* the delimiters, read and then split.                                    *)
(***************************************************************************)
Alphabet == {"a", "b", " ", "\t", "\r", BEL}

TokNext ==
  \/ Prompt
  \/ ReadBegin
  \/ \E c \in Alphabet : Len(line) < MaxLineLen /\ ReadChar(c)
  \/ ReadNewline
  \/ SplitLine

TokSpec == Init /\ [][TokNext]_vars

(***************************************************************************)
(* Long lines: a...a and "a a a ...", past two growths of the line         *)
(* buffer; the lines short enough are split token by token, past two       *)
(* growths of the token slots.                                             *)
(***************************************************************************)
MaxLongLine == 2 * LSH_RL_BUFSIZE + LongSlack

MaxTokLine == 2 * (2 * LSH_TOK_BUFSIZE + LongSlack)

\* the next character of the two long lines
LongChars(l) ==
  IF Len(l) = 0 THEN {"a"}
  ELSE IF Len(l) = 1 THEN {"a", " "}
  ELSE IF l[2] = "a" THEN {"a"}
  ELSE IF l[Len(l)] = "a" THEN {" "} ELSE {"a"}

BufNext ==
  \/ Prompt
  \/ ReadBegin
  \/ \E c \in LongChars(line) : Len(line) < MaxLongLine /\ ReadChar(c)
  \/ ReadNewline
  \/ Len(line) <= MaxTokLine /\ SplitBegin
  \/ SplitToken
  \/ SplitEnd

BufSpec == Init /\ [][BufNext]_vars

TypeOK ==
  /\ pc \in {"prompt", "read", "split", "execute", "wait", "free", "return", "exited"}
  /\ status \in {0, 1}
  /\ cwd \in Dirs(fs)
  /\ nread \in 0..MaxCmds

(***************************************************************************)
(* Properties.                                                             *)
(***************************************************************************)
\* everything the shell has handed to standard output, written out or not
Shown == out \o obuf

BuiltinNames == {W_echo, W_pwd, W_ls, W_mkdir, W_cd, W_help, W_exit}

FirstTokenIs(l, w) == strtok(l, 1).found /\ strtok(l, 1).token = w

IsLast(s, e) == s # <<>> /\ s[Len(s)] = e

\* C1: when the first token of the line is exit, whatever follows it and
\* whatever ran before, lsh_execute returns 0 (terminate); from then on the
\* loop writes nothing more to standard output and reads no more input, and
\* the only steps left are the release of the buffers and main's return,
\* which ends the process with status 0.
C1_ExitTerminates ==
  [][ /\ (pc = "execute" /\ FirstTokenIs(line, W_exit)) =>
           (status' = 0 /\ pc' = "free" /\ Shown' = Shown /\ nread' = nread)
      /\ (pc = "free" /\ status = 0) =>
           (pc' = "return" /\ Shown' = Shown /\ nread' = nread /\ eof' = eof)
      /\ pc = "return" =>
           (pc' = "exited" /\ exitStatus' = EXIT_SUCCESS /\ Shown' = Shown
              /\ nread' = nread /\ eof' = eof)
      /\ pc # "exited" ]_vars

\* exit with an argument, after an earlier command failed, has ended the process
C1_Witness ==
  /\ pc = "exited"
  /\ exitStatus = EXIT_SUCCESS
  /\ status = 0
  /\ calls = <<[fn |-> "lsh_exit", argv |-> <<W_exit, W_x>>]>>
  /\ err # <<>>

\* C2: when execvp fails in the child of a command that is no builtin, the
\* child writes one diagnostic to standard error and exits with a non-zero
\* status while the parent stays in waitpid untouched; the parent then
\* returns 1 (continue) from lsh_launch and the loop goes back to the prompt:
\* the shell does not leave the loop in an iteration that launched a program.
C2_ExecFailure ==
  [][ /\ (child.st = "forked" /\ child'.st = "exited") =>
           /\ child.argv[1] \notin BuiltinNames
           /\ Len(err') = Len(err) + 1
           /\ SubSeq(err', 1, Len(err)) = err
           /\ err'[Len(err')].by = "child"
           /\ child'.code # 0
           /\ pc = "wait" /\ pc' = "wait"
           /\ <<status, cwd, fs, obuf, line, args>>' = <<status, cwd, fs, obuf, line, args>>
      /\ (pc = "wait" /\ child.st = "exited") =>
           (status' = 1 /\ pc' = "free" /\ err' = err)
      /\ (pc = "free" /\ calls # <<>> /\ calls[1].fn = "lsh_launch") =>
           pc' = "prompt"
      /\ (calls # <<>> /\ calls[1].fn = "lsh_launch") =>
           pc' \notin {"return", "exited"} ]_vars

\* back at the prompt after a child whose exec failed
C2_Witness ==
  /\ pc = "prompt"
  /\ calls # <<>> /\ calls[1].fn = "lsh_launch"
  /\ err # <<>> /\ err[Len(err)].by = "child"

\* C3: lsh_execute returns 0 only for exit: every other builtin, on success
\* and on failure, and every external command, however its child ended and
\* also when fork failed, returns 1.  The process leaves the loop only by
\* exit (main's return), by end of input, or by a failed allocation.
C3_OnlyExitTerminates ==
  [][ /\ (pc \in {"execute", "wait"} /\ pc' # pc) =>
           /\ pc' \in {"free", "wait"}
           /\ pc' = "free" => (status' = 0 <=> (args # <<>> /\ args[1] = W_exit))
      /\ pc' = "return" => (pc = "free" /\ status = 0 /\ calls[1].fn = "lsh_exit")
      /\ (pc' = "exited" /\ pc # "exited") =>
           \/ pc = "return" /\ exitStatus' = EXIT_SUCCESS
           \/ pc = "read" /\ eof' /\ exitStatus' = EXIT_SUCCESS
           \/ /\ pc \in {"read", "split"}
              /\ exitStatus' = EXIT_FAILURE
              /\ err' = Append(err, AllocError) ]_vars

\* two commands went by, a failing one and an external one, and the loop
\* is at the prompt again
C3_Witness ==
  /\ pc = "prompt"
  /\ nread >= 2
  /\ calls # <<>> /\ calls[1].fn = "lsh_launch"
  /\ \E i \in 1..Len(err) : err[i].by = "shell"

HandlerOf(tok) ==
  CASE tok = W_echo  -> "lsh_echo"
    [] tok = W_pwd   -> "lsh_pwd"
    [] tok = W_ls    -> "lsh_ls"
    [] tok = W_mkdir -> "lsh_mkdir"
    [] tok = W_cd    -> "lsh_cd"
    [] tok = W_help  -> "lsh_help"
    [] tok = W_exit  -> "lsh_exit"

\* C4: for a non-empty vector the first token decides: if it equals, letter
\* for letter and case for case, one of the seven names, exactly that
\* handler is called with the whole vector and no process is created;
\* otherwise no handler is called and exactly one fork is attempted, whose
\* child is given the vector unchanged for execvp.
C4_Dispatch ==
  [][ /\ (pc = "execute" /\ args # <<>>) =>
           /\ calls = <<>>
           /\ IF args[1] \in BuiltinNames
                THEN /\ calls' = <<[fn |-> HandlerOf(args[1]), argv |-> args]>>
                     /\ child' = NoChild
                     /\ pc' = "free"
                ELSE /\ calls' = <<[fn |-> "lsh_launch", argv |-> args]>>
                     /\ \/ child'.st = "forked" /\ child'.argv = args /\ pc' = "wait"
                        \/ child' = NoChild /\ pc' = "free" /\ Len(err') = Len(err) + 1
      /\ pc # "execute" => (calls' = calls \/ calls' = <<>>)
      /\ child.st \notin {"none", "exited", "signaled"} => child'.argv = child.argv
    ]_vars

\* the program x runs with the vector <<x, cd>>: a builtin name as a later
\* token selects no builtin
C4_Witness ==
  /\ pc = "wait"
  /\ child.st = "running"
  /\ child.argv = <<W_x, W_cd>>
  /\ calls = <<[fn |-> "lsh_launch", argv |-> <<W_x, W_cd>>]>>

Alive == child.st \in {"forked", "running", "stopped"}

\* C5: while the child of a successful fork has neither exited nor been
\* killed by a signal, the shell stays in waitpid: it prints nothing, reads
\* nothing, dispatches nothing and forks no other child.  The report that
\* the child was stopped is taken and the wait goes on.  A child is created
\* only when there is none.
C5_ParentBlocked ==
  [][ /\ Alive =>
           /\ pc = "wait" /\ pc' = "wait"
           /\ <<obuf, nread, line, args, calls, status, cwd, eof>>'
                = <<obuf, nread, line, args, calls, status, cwd, eof>>
           /\ out' = out \/ child'.st = "exited"
      /\ (child.st = "stopped" /\ ~child.reported /\ child'.reported) =>
           (pc' = "wait" /\ child'.st = "stopped")
      /\ (child'.st = "forked" /\ child.st # "stopped") => child.st = "none"
    ]_vars

\* the parent has been told that the child stopped, and still waits
C5_Witness ==
  /\ pc = "wait"
  /\ child.st = "stopped"
  /\ child.reported

\* C6: when getchar reports EOF with nothing accumulated, the process exits
\* at once with status 0: no vector is built, no handler is called, no
\* child is created, and standard output and standard error hold nothing
\* beyond the prompt (on the first prompt: the prompt alone).
C6_EofOnEmptyLine ==
  [][ /\ (pc = "read" /\ eof' /\ line' = <<>>) =>
           /\ pc' = "exited"
           /\ exitStatus' = EXIT_SUCCESS
           /\ Shown' = Shown /\ obuf' = <<>>
           /\ IsLast(out', PROMPT_STR)
           /\ err' = err
           /\ calls = <<>>
           /\ <<args, calls, child, cwd, fs>>' = <<args, calls, child, cwd, fs>>
           /\ heap'.args = heap.args /\ heap.args # "live"
           /\ child = NoChild
           /\ nread = 0 => (out' = <<PROMPT_STR>> /\ err' = <<>>)
      /\ pc = "exited" => out' = out /\ err' = err
    ]_vars

\* end of input on the very first prompt
C6_Witness ==
  /\ pc = "exited"
  /\ eof
  /\ line = <<>>
  /\ nread = 0
  /\ exitStatus = EXIT_SUCCESS
  /\ out = <<PROMPT_STR>>

Delimiters == {" ", "\t", "\r", "\n", BEL}

Blank(l) == \A i \in 1..Len(l) : l[i] \in Delimiters

\* C7: a line that is empty or made of delimiters only does nothing:
\* lsh_execute returns 1 without calling a handler or creating a process,
\* standard output, standard error, the working directory and the file
\* system stay as they are, the loop goes back to the prompt, and the prompt
\* is the only thing then written.
C7_BlankLine ==
  [][ /\ (heap.line = "live" /\ Blank(line) /\ pc \in {"execute", "free"}) =>
           /\ pc = "execute" => (pc' = "free" /\ status' = 1)
           /\ pc = "free" => (pc' = "prompt" /\ status = 1)
           /\ calls' = <<>>
           /\ child' = NoChild
           /\ <<out, obuf, err, cwd, fs>>' = <<out, obuf, err, cwd, fs>>
      /\ pc = "prompt" =>
           (Shown' = Append(Shown, PROMPT_STR) /\ err' = err /\ cwd' = cwd /\ fs' = fs)
    ]_vars

\* a line was read, nothing was called, and the loop is at the prompt again
C7_Witness ==
  /\ pc = "prompt"
  /\ nread >= 1
  /\ calls = <<>>
  /\ status = 1
  /\ heap.line = "freed"

SystemDiag(errno) == [by |-> "shell", msg |-> <<"lsh", ": ", errno, "\n">>]

UsageDiag(name) ==
  [by |-> "shell", msg |-> <<"lsh: expected argument to \"", name, "\"", "\n">>]

\* C8: cd without an argument writes the usage diagnostic to standard error
\* and leaves the working directory alone; cd to a path chdir refuses writes
\* a system diagnostic and leaves the working directory alone.  Both return
\* 1, and nothing but a dispatch changes the working directory, so later
\* commands see the directory that was in effect before the failed cd.
C8_CdFailure ==
  [][ /\ (pc = "execute" /\ args # <<>> /\ args[1] = W_cd /\ Len(args) = 1) =>
           /\ err' = Append(err, UsageDiag("cd"))
           /\ cwd' = cwd
           /\ status' = 1 /\ pc' = "free"
      /\ (pc = "execute" /\ args # <<>> /\ args[1] = W_cd /\ Len(args) >= 2
            /\ sys_chdir(fs, cwd, args[2]).ret # 0) =>
           /\ err' = Append(err, SystemDiag(sys_chdir(fs, cwd, args[2]).errno))
           /\ cwd' = cwd
           /\ status' = 1 /\ pc' = "free"
      /\ pc # "execute" => cwd' = cwd
    ]_vars

\* cd x has failed in the directory /d, which is still the working directory
C8_Witness ==
  /\ pc = "free"
  /\ calls = <<[fn |-> "lsh_cd", argv |-> <<W_cd, W_x>>]>>
  /\ cwd = <<W_d>>
  /\ IsLast(err, SystemDiag("ENOENT"))

\* the directory a path name denotes, seen from the working directory wd
AbsPath(wd, tok) == StartOf(wd, tok) \o NonEmpty(Components(tok, 1, <<>>))

\* what mkdir does, with (needParent) or without the condition that the
\* parent directory of the new one exists
MkdirBehaves(needParent) ==
  /\ (pc = "execute" /\ args # <<>> /\ args[1] = W_mkdir) =>
       /\ status' = 1 /\ pc' = "free"
       /\ IF Len(args) = 1
            THEN fs' = fs /\ err' = Append(err, UsageDiag("mkdir"))
            ELSE LET p == AbsPath(cwd, args[2])
                 IN  IF p \in Dirs(fs)
                       THEN fs' = fs /\ err' = Append(err, SystemDiag("EEXIST"))
                       ELSE IF needParent /\ Front(p) \notin Dirs(fs)
                         THEN fs' = fs /\ err' = Append(err, SystemDiag("ENOENT"))
                         ELSE fs' = fs \cup {[p |-> p, m |-> 493]} /\ err' = err
  /\ fs \subseteq fs'
  /\ fs' # fs => (pc = "execute" /\ args # <<>> /\ args[1] = W_mkdir)

\* C9 as stated: mkdir p creates p (mode 0755) without a diagnostic
\* whenever p does not exist; while p exists it creates nothing, writes a
\* system diagnostic and returns 1; without an argument it writes the usage
\* diagnostic and creates nothing.
C9_MkdirOnce_AsStated == [][MkdirBehaves(FALSE)]_vars

\* C9, amended: mkdir p creates p (mode 0755) without a diagnostic when p
\* does not exist and the directory it is to be created in exists; when
\* that directory is missing it creates nothing and writes a system
\* diagnostic.  While p exists mkdir p creates nothing, writes a system
\* diagnostic and returns 1; no directory is ever removed, so in a row of
\* mkdir p commands the creation succeeds at most once, and exactly once if
\* the parent directory exists.  Without an argument mkdir writes the usage
\* diagnostic and creates nothing.
C9_MkdirOnce == [][MkdirBehaves(TRUE)]_vars

\* the second mkdir x in the root directory: x exists, created once with
\* mode 0755, and the diagnostic was written
C9_Witness ==
  /\ pc = "free"
  /\ nread >= 2
  /\ calls = <<[fn |-> "lsh_mkdir", argv |-> <<W_mkdir, W_x>>]>>
  /\ [p |-> <<W_x>>, m |-> 493] \in fs
  /\ err = <<SystemDiag("EEXIST")>>

RECURSIVE JoinWithSpaces(_)
JoinWithSpaces(toks) ==
  IF toks = <<>> THEN <<>>
  ELSE IF Len(toks) = 1 THEN toks[1]
  ELSE toks[1] \o <<" ">> \o JoinWithSpaces(Tail(toks))

\* C10: echo hands to standard output exactly its arguments, in order,
\* with one space between neighbours, then one newline, and nothing else
\* (echo a b c gives "a b c\n", echo alone gives "\n").
C10_EchoExact ==
  [][ (pc = "execute" /\ args # <<>> /\ args[1] = W_echo) =>
        /\ Shown' = Shown \o JoinWithSpaces(Tail(args)) \o <<"\n">>
        /\ err' = err
    ]_vars

\* the maximal runs of characters that are no delimiters, as (first, last)
Runs(l) ==
  {r \in (1..Len(l)) \X (1..Len(l)) :
     /\ r[1] <= r[2]
     /\ \A i \in r[1]..r[2] : l[i] \notin Delimiters
     /\ (r[1] = 1 \/ l[r[1] - 1] \in Delimiters)
     /\ (r[2] = Len(l) \/ l[r[2] + 1] \in Delimiters)}

\* the runs in the order of their first characters
MaximalRuns(l) ==
  LET nth(k) == CHOOSE r \in Runs(l) :
                  Cardinality({q \in Runs(l) : q[1] < r[1]}) = k - 1
  IN  [k \in 1..Cardinality(Runs(l)) |-> SubSeq(l, nth(k)[1], nth(k)[2])]

RECURSIVE Flatten(_)
Flatten(toks) == IF toks = <<>> THEN <<>> ELSE Head(toks) \o Flatten(Tail(toks))

NoDelims(l) == SelectSeq(l, LAMBDA c : c \notin Delimiters)

\* C11: the vector the tokenizer returns is exactly the maximal runs of
\* non-delimiter characters of the line, in their order: no token is empty,
\* none holds a delimiter, the tokens put together are the line without its
\* delimiters, and a line with no such character gives the empty vector.
C11_MaximalRuns ==
  [][ (pc = "split" /\ pc' = "execute") =>
        /\ args' = MaximalRuns(line)
        /\ \A k \in 1..Len(args') :
             /\ args'[k] # <<>>
             /\ \A i \in 1..Len(args'[k]) : args'[k][i] \notin Delimiters
        /\ Flatten(args') = NoDelims(line)
        /\ Blank(line) => args' = <<>>
    ]_vars

\* a line with a leading delimiter and two delimiters in a row was split
C11_Witness ==
  /\ pc = "execute"
  /\ line = <<"\t", "a", " ", BEL>> \o <<"b">>
  /\ args = << <<"a">>, <<"b">> >>

\* the text has single spaces between tokens and no other delimiter
SingleSpaced(l) ==
  /\ \A i \in 1..Len(l) : l[i] \in Delimiters => l[i] = " "
  /\ l # <<>> => (l[1] # " " /\ l[Len(l)] # " ")
  /\ \A i \in 1..(Len(l) - 1) : ~(l[i] = " " /\ l[i + 1] = " ")

\* C12: tokenizing and joining with single spaces is idempotent: for the
\* joined text L' of the tokens of a line L, the tokens of L' are the tokens
\* of L and joining them gives L' again.
C12_Idempotent ==
  [][ (pc = "split" /\ pc' = "execute") =>
        LET L1 == JoinWithSpaces(args')
        IN  /\ SingleSpaced(L1)
            /\ lsh_split_line(L1) = args'
            /\ JoinWithSpaces(lsh_split_line(L1)) = L1
    ]_vars

\* a line that is not its own joined text was split into two tokens
C12_Witness ==
  /\ pc = "execute"
  /\ Len(args) = 2
  /\ JoinWithSpaces(args) # line
  /\ \E i \in 1..Len(line) : line[i] = "\t"

\* C13: pwd either prints the line with the working directory and writes
\* nothing to standard error, or, when the working directory cannot be
\* retrieved, writes one diagnostic to standard error and no
\* working-directory line to standard output; either way it returns 1.
C13_PwdFailureReported ==
  [][ (pc = "execute" /\ Target(args) = "lsh_pwd") =>
        /\ pc' = "free"
        /\ status' = 1
        /\ \/ /\ Shown' = Shown \o <<"Current working dir: ">> \o getcwd(cwd)
                            \o <<"\n">>
              /\ err' = err
           \/ /\ Shown' = Shown
              /\ Len(err') = Len(err) + 1
              /\ err'[Len(err')].by = "shell"
              /\ SubSeq(err', 1, Len(err)) = err
    ]_vars

\* C14: the shell's working directory changes only in the dispatch of cd
\* with a path argument whose chdir succeeds, and then to that directory;
\* every other step (any other builtin, an empty line, a failed cd, the
\* launch of a program and whatever the program does, its own chdir
\* included) leaves it as it was.
C14_CwdOnlyByCd ==
  [][ cwd' # cwd =>
        /\ pc = "execute"
        /\ Target(args) = "lsh_cd"
        /\ Len(args) >= 2
        /\ sys_chdir(fs, cwd, args[2]).ret = 0
        /\ cwd' = sys_chdir(fs, cwd, args[2]).cwd
    ]_vars

\* a program changed its own directory and ended; the shell is elsewhere
C14_Witness ==
  /\ pc = "wait"
  /\ child.st = "exited"
  /\ child.cwd # cwd

\* one step of the ownership discipline of line and args
OwnershipStep ==
  \* allocated once: in its own call, while no earlier buffer is held
  /\ (heap.line # "live" /\ heap'.line = "live") => pc = "read"
  /\ (heap.args # "live" /\ heap'.args = "live") => pc = "split"
  /\ pc = "read" => (heap.line # "live" /\ heap.args # "live")
  /\ pc = "split" => (heap.line = "live" /\ heap.args # "live")
  \* held, line under args, until dispatch has returned
  /\ pc \in {"execute", "wait"} =>
       (heap = [line |-> "live", args |-> "live"] /\ heap' = heap)
  \* released once, both, after dispatch
  /\ heap'.line = "freed" /\ heap.line # "freed" => (pc = "free" /\ heap.line = "live")
  /\ heap'.args = "freed" /\ heap.args # "freed" => (pc = "free" /\ heap.args = "live")
  /\ pc = "free" => (heap = [line |-> "live", args |-> "live"]
                       /\ heap' = [line |-> "freed", args |-> "freed"])
  \* nothing is held at the next prompt
  /\ pc' = "prompt" => (heap'.line # "live" /\ heap'.args # "live")

Terminated ==
  /\ pc = "exited"
  /\ exitStatus = EXIT_SUCCESS
  /\ Len(done) = Len(tape)
  /\ Len(done) = nread
  /\ \A i \in 1..Len(done) : done[i] = lsh_split_line(tape[i])
  /\ \A i \in 1..(Len(done) - 1) : Target(done[i]) # "lsh_exit"
  /\ eof \/ (done # <<>> /\ Target(done[Len(done)]) = "lsh_exit")

\* C16: with an input that ends, no failing allocation, and every child
\* exiting or being killed in the end, the shell terminates with success
\* after dispatching the complete lines up to the first exit line (all of
\* them if there is none) in input order, one per iteration; and if a child
\* never terminates the shell stays in its wait for ever.
C16_Termination ==
  /\ ([]<>(~Alive)) => <>Terminated
  /\ (<>[]Alive) => <>[](pc = "wait")

\* a program was launched and ended, then exit was read: the shell is gone
C16_Witness ==
  /\ Terminated
  /\ Len(done) = 2
  /\ Target(done[1]) = "lsh_launch"
  /\ Target(done[2]) = "lsh_exit"

\* a step of the child process (not the parent's fork or waitpid)
ChildMoves ==
  /\ Alive
  /\ child' # child
  /\ child' # [child EXCEPT !.reported = TRUE]

\* C17: the child never acts as a second shell.  After the fork it is
\* either replaced by the program or, when execvp fails, it writes its
\* diagnostic and exits with EXIT_FAILURE; no step of the child moves the
\* loop, prompts, reads input, dispatches or frees line and args; and the
\* loop moves only while no child is alive, so one process runs it.
C17_NoSecondShell ==
  [][ /\ ChildMoves =>
           /\ pc = "wait"
           /\ <<pc, line, args, heap, status, nread, tape, done, calls, eof, obuf,
                loc, exitStatus, cwd, fs>>'
                = <<pc, line, args, heap, status, nread, tape, done, calls, eof,
                    obuf, loc, exitStatus, cwd, fs>>
           /\ child'.st \in {"forked", "running", "stopped", "exited", "signaled"}
      /\ (child.st = "forked" /\ child'.st \in {"running", "exited"}) =>
           \/ child'.st = "running" /\ err' = err
           \/ /\ child'.st = "exited"
              /\ child'.code = EXIT_FAILURE
              /\ Len(err') = Len(err) + 1
              /\ err'[Len(err')].by = "child"
      /\ (pc' # pc \/ nread' # nread \/ heap' # heap \/ calls' # calls) => ~Alive
    ]_vars

\* execvp failed: the child wrote its diagnostic and is gone with
\* EXIT_FAILURE, the shell is still in its wait
C17_Witness ==
  /\ pc = "wait"
  /\ child.st = "exited"
  /\ child.code = EXIT_FAILURE
  /\ err # <<>>
  /\ err[Len(err)].by = "child"

\* C18: what the shell printed appears on standard output once: a step of
\* the child whose execvp failed writes its diagnostic to standard error
\* and nothing to standard output.
C18_OutputOnce ==
  [][ (child.st = "forked" /\ child'.st = "exited") =>
        /\ out' = out
        /\ Len(err') = Len(err) + 1
        /\ err'[Len(err')].by = "child"
    ]_vars

\* C19: when the input ends after some characters of a line and before
\* their newline, the process exits with EXIT_SUCCESS; the characters are
\* not tokenized and not dispatched, no handler runs, no process is
\* created and the file system stays as it is.
C19_EofMidLine ==
  [][ (pc = "read" /\ eof' /\ line' # <<>>) =>
        /\ pc' = "exited"
        /\ exitStatus' = EXIT_SUCCESS
        /\ <<args, done, tape, nread, calls, child, fs, cwd, err>>'
             = <<args, done, tape, nread, calls, child, fs, cwd, err>>
        /\ Len(done) = nread
    ]_vars

\* the input ended after "mkdir x": the shell is gone, there is no x
C19_Witness ==
  /\ pc = "exited"
  /\ eof
  /\ exitStatus = EXIT_SUCCESS
  /\ line = W_mkdir \o SP \o W_x
  /\ <<W_x>> \notin Dirs(fs)

\* C20: every write into the line buffer, the end-of-string write
\* included, is at an index below the capacity at the time of the write
\* (LSH_RL_BUFSIZE at first, LSH_RL_BUFSIZE more whenever the position
\* reaches the capacity), and likewise every write into the token slots,
\* the end marker included (LSH_TOK_BUFSIZE at first, LSH_TOK_BUFSIZE more
\* whenever the position reaches the capacity); the characters and tokens
\* already stored stay as they are, in their order, across a growth.
C20_BufferBounds ==
  [][ /\ (pc = "read" /\ heap.line # "live" /\ heap'.line = "live") =>
           loc'.bufsize = LSH_RL_BUFSIZE
      /\ (pc = "read" /\ heap.line = "live" /\ line' # line) =>
           /\ Len(line) < loc.bufsize
           /\ Len(line') = Len(line) + 1
           /\ SubSeq(line', 1, Len(line)) = line
           /\ loc'.bufsize = IF Len(line') = loc.bufsize
                               THEN loc.bufsize + LSH_RL_BUFSIZE
                               ELSE loc.bufsize
      /\ (pc = "read" /\ pc' = "split") =>
           (Len(line) < loc.bufsize /\ line' = line)
      /\ (pc = "split" /\ heap.args # "live" /\ heap'.args = "live") =>
           loc'.bufsize = LSH_TOK_BUFSIZE
      /\ (pc = "split" /\ heap.args = "live" /\ args' # args) =>
           /\ Len(args) < loc.bufsize
           /\ Len(args') = Len(args) + 1
           /\ SubSeq(args', 1, Len(args)) = args
           /\ loc'.bufsize = IF Len(args') = loc.bufsize
                               THEN loc.bufsize + LSH_TOK_BUFSIZE
                               ELSE loc.bufsize
      /\ (pc = "split" /\ pc' = "execute") =>
           (Len(args) < loc.bufsize /\ args' = args /\ line' = line)
    ]_vars

\* a line longer than twice the first capacity was read to its end: the
\* buffer grew twice
C20_Witness ==
  /\ pc = "split"
  /\ Len(line) > 2 * LSH_RL_BUFSIZE
  /\ loc.bufsize = 3 * LSH_RL_BUFSIZE

====
